---------------------------- MODULE Spec2Model ----------------------------
(***************************************************************************)
(* Model of cryptolib (abstract.py, main.py): prime-field arithmetic, the  *)
(* extended Euclidean algorithm, the two exponentiation operators and the  *)
(* elliptic-curve point objects.                                           *)
(*                                                                         *)
(* Python integers are unbounded; `%` and `//` are floor modulo and floor  *)
(* division, which is what TLA+'s % and \div are for a positive divisor.   *)
(***************************************************************************)
EXTENDS Integers, Sequences, FiniteSets, TLC

(* ------------------------------ bounds --------------------------------- *)
\* largest modulus considered for Field(p)
MaxP == 12
\* largest argument of a direct call xgcd(x, y)
MaxArg == 24
\* exponents passed to ** and ^ range over -MaxNegExp..MaxExp
MaxExp == 5
\* the most negative exponent is -MaxNegExp
MaxNegExp == 3
\* depth of recursion followed before the interpreter gives up (RecursionError)
MaxDepth == 12

IsPrime(n) == n > 1 /\ \A d \in 2..(n - 1) : n % d # 0
Primes == {n \in 2..MaxP : IsPrime(n)}
Exponents == (0 - MaxNegExp)..MaxExp
Max(m, n) == IF m >= n THEN m ELSE n

(* ------------------------------ state ---------------------------------- *)
VARIABLES
    p,        \* Field.p, the modulus of the field in use
    elems,    \* the two FieldElement values the driver holds (main.py x, y)
    last,     \* outcome of the last completed operation
    pc,       \* "idle", or "xgcd" while the loop of xgcd runs
    caller,   \* who called xgcd ("xgcd" for a direct call, "inverse" or
              \* "divide"), with the operands of that Field operation
    args,     \* the arguments (x, y) of the running xgcd call
    old_r, r, old_s, s, old_t, t,   \* the locals of xgcd
    iter      \* number of completed loop iterations of the running call

vars == <<p, elems, last, pc, caller, args, old_r, r, old_s, s, old_t, t,
          iter>>

(* --------------------- results of an operation ------------------------- *)
\* what a call ends with: a returned value, or the exception it raises
Returned(v) == [status |-> "ok", value |-> v]
Raised(exc) == [status |-> exc, value |-> 0]

NoOp == [op |-> "none", in |-> <<>>, status |-> "ok", out |-> <<>>]
NoCaller == [op |-> "none", left |-> 0, right |-> 0, dest |-> 1]

(* ------------------------------ Field ---------------------------------- *)
\* A FieldElement is modelled by its value; f is its field's modulus, Field.p.
zero == 0

one == 1

multiply(f, left, right) == (left * right) % f

add(f, left, right) == (left + right) % f

subtract(f, left, right) == (f + left - right) % f

negate(f, operand) == (f - operand) % f

is_zero(value) == value = 0

\* a slip in Field.inverse: the other coefficient of the triple is returned
inverse_result_other(f, a, b, g) == b

\* Field.inverse after its call of xgcd returned (a, b, g): FieldElement(a, self)
inverse_result(f, a, b, g) == a

\* Field.divide after its call of xgcd returned (a, b, g)
divide_result(f, left, a) == (left * a) % f

(* ------------------------------- xgcd ---------------------------------- *)
\* the loop body of xgcd, one operator per line
\* a slip in line 253: the remainder is taken for the quotient
quotient_mod(o_r, c_r) == o_r % c_r

quotient(o_r, c_r) == o_r \div c_r

next_r(o_r, c_r, q) == o_r - q * c_r

next_s(o_s, c_s, q) == o_s - q * c_s

\* a slip in line 256: the sign of the update
next_t_plus(o_t, c_t, q) == o_t + q * c_t

next_t(o_t, c_t, q) == o_t - q * c_t

\* saturating count of loop iterations: IterCap stands for "IterCap or more"
IterCap == 2
Bump(n) == IF n < IterCap THEN n + 1 ELSE n

\* entry of xgcd(x, y): lines 248-250; the previous call's result is dropped
EnterXgcd(x, y, who) ==
    /\ pc' = "xgcd"
    /\ caller' = who
    /\ args' = <<x, y>>
    /\ old_r' = x /\ r' = y
    /\ old_s' = 1 /\ s' = 0
    /\ old_t' = 0 /\ t' = 1
    /\ iter' = 0
    /\ last' = NoOp

LeaveXgcd ==
    /\ pc' = "idle"
    /\ caller' = NoCaller
    /\ args' = <<0, 0>>
    /\ old_r' = 0 /\ r' = 0 /\ old_s' = 0 /\ s' = 0 /\ old_t' = 0 /\ t' = 0
    /\ iter' = 0

\* a direct call xgcd(x, y) with non-negative arguments
XgcdCall ==
    /\ pc = "idle"
    /\ \E x \in 0..MaxArg, y \in 0..MaxArg :
           EnterXgcd(x, y, [NoCaller EXCEPT !.op = "xgcd"])
    /\ UNCHANGED <<p, elems>>

\* one iteration of `while r != 0`
XgcdStep ==
    /\ pc = "xgcd"
    /\ r # 0
    /\ LET q == quotient(old_r, r) IN
           /\ old_r' = r /\ r' = next_r(old_r, r, q)
           /\ old_s' = s /\ s' = next_s(old_s, s, q)
           /\ old_t' = t /\ t' = next_t(old_t, t, q)
    /\ iter' = Bump(iter)
    /\ UNCHANGED <<p, elems, last, pc, caller, args>>

\* `return old_s, old_t, old_r` of a direct call
XgcdReturn ==
    /\ pc = "xgcd"
    /\ r = 0
    /\ caller.op = "xgcd"
    /\ last' = [op |-> "xgcd", in |-> args, status |-> "ok",
                out |-> <<old_s, old_t, old_r>>]
    /\ LeaveXgcd
    /\ UNCHANGED <<p, elems>>

(* ------------------- FieldElement exponentiation ----------------------- *)
\* FieldElement.__pow__, the recursive form; depth counts the frames in use
RECURSIVE pow(_, _, _, _)
pow(f, self, exponent, depth) ==
    IF depth > MaxDepth THEN Raised("RecursionError")
    ELSE IF exponent = 0 THEN Returned(one)
    ELSE IF exponent = 1 THEN Returned(self)
    ELSE IF exponent % 2 = 0
         THEN pow(f, multiply(f, self, self), exponent \div 2, depth + 1)
         ELSE LET rest == pow(f, multiply(f, self, self),
                              (exponent - 1) \div 2, depth + 1)
              IN  IF rest.status = "ok"
                  THEN Returned(multiply(f, self, rest.value))
                  ELSE rest

\* number of binary digits of n >= 0, as bin(n) prints them ("0" for 0)
RECURSIVE BinDigits(_)
BinDigits(n) == IF n < 2 THEN 1 ELSE 1 + BinDigits(n \div 2)

\* len(bin(exponent)[2:]): bin(5) = "0b101", bin(-5) = "-0b101", and the
\* slice drops the first two characters whatever they are
bin_len(exponent) ==
    IF exponent >= 0 THEN BinDigits(exponent) ELSE 1 + BinDigits(0 - exponent)

\* (1 << i) & exponent != 0, on Python's two's-complement integers
bit_set(i, exponent) == (exponent \div (2 ^ i)) % 2 = 1

\* the loop of FieldElement.__xor__ from bit i down to bit 0
RECURSIVE xor_loop(_, _, _, _, _)
xor_loop(f, acc, val, exponent, i) ==
    IF i < 0 THEN acc
    ELSE LET sq == multiply(f, acc, acc)
         IN  xor_loop(f, IF bit_set(i, exponent) THEN multiply(f, sq, val) ELSE sq,
                      val, exponent, i - 1)

\* FieldElement.__xor__, the iterative form
xor(f, self, exponent) ==
    Returned(xor_loop(f, 1, self, exponent, bin_len(exponent) - 1))

(* --------------------------- Field actions ----------------------------- *)
\* an operation ends: a returned FieldElement goes to elems[d]
Finish(name, inputs, res, d) ==
    /\ last' = [op |-> name, in |-> inputs, status |-> res.status,
                out |-> IF res.status = "ok" THEN <<res.value>> ELSE <<>>]
    /\ elems' = IF res.status = "ok" THEN [elems EXCEPT ![d] = res.value]
                ELSE elems

FieldAdd ==
    /\ pc = "idle"
    /\ \E i \in 1..2, j \in 1..2, d \in 1..2 :
           Finish("add", <<elems[i], elems[j]>>,
                  Returned(add(p, elems[i], elems[j])), d)
    /\ UNCHANGED <<p, pc, caller, args, old_r, r, old_s, s, old_t, t, iter>>

FieldSubtract ==
    /\ pc = "idle"
    /\ \E i \in 1..2, j \in 1..2, d \in 1..2 :
           Finish("subtract", <<elems[i], elems[j]>>,
                  Returned(subtract(p, elems[i], elems[j])), d)
    /\ UNCHANGED <<p, pc, caller, args, old_r, r, old_s, s, old_t, t, iter>>

FieldMultiply ==
    /\ pc = "idle"
    /\ \E i \in 1..2, j \in 1..2, d \in 1..2 :
           Finish("multiply", <<elems[i], elems[j]>>,
                  Returned(multiply(p, elems[i], elems[j])), d)
    /\ UNCHANGED <<p, pc, caller, args, old_r, r, old_s, s, old_t, t, iter>>

FieldNegate ==
    /\ pc = "idle"
    /\ \E i \in 1..2, d \in 1..2 :
           Finish("negate", <<elems[i]>>, Returned(negate(p, elems[i])), d)
    /\ UNCHANGED <<p, pc, caller, args, old_r, r, old_s, s, old_t, t, iter>>

\* Field.inverse, line 27: the call of xgcd(operand.value, self.p)
InverseCall ==
    /\ pc = "idle"
    /\ \E i \in 1..2, d \in 1..2 :
           EnterXgcd(elems[i], p,
                     [op |-> "inverse", left |-> elems[i], right |-> 0, dest |-> d])
    /\ UNCHANGED <<p, elems>>

\* Field.inverse, line 28, once xgcd returned
InverseReturn ==
    /\ pc = "xgcd"
    /\ r = 0
    /\ caller.op = "inverse"
    /\ Finish("inverse", <<caller.left>>,
              Returned(inverse_result(p, old_s, old_t, old_r)), caller.dest)
    /\ LeaveXgcd
    /\ UNCHANGED p

\* Field.divide, lines 31-32: the assertion, then the call of xgcd
DivideCall ==
    /\ pc = "idle"
    /\ \E i \in 1..2, j \in 1..2, d \in 1..2 :
           IF is_zero(elems[j])
           THEN /\ Finish("divide", <<elems[i], elems[j]>>,
                          Raised("AssertionError"), d)
                /\ UNCHANGED <<pc, caller, args, old_r, r, old_s, s, old_t, t, iter>>
           ELSE /\ EnterXgcd(elems[j], p,
                       [op |-> "divide", left |-> elems[i], right |-> elems[j],
                        dest |-> d])
                /\ UNCHANGED elems
    /\ UNCHANGED p

\* Field.divide, line 33, once xgcd returned
DivideReturn ==
    /\ pc = "xgcd"
    /\ r = 0
    /\ caller.op = "divide"
    /\ Finish("divide", <<caller.left, caller.right>>,
              Returned(divide_result(p, caller.left, old_s)), caller.dest)
    /\ LeaveXgcd
    /\ UNCHANGED p

Pow ==
    /\ pc = "idle"
    /\ \E i \in 1..2, d \in 1..2, n \in Exponents :
           Finish("pow", <<elems[i], n>>, pow(p, elems[i], n, 1), d)
    /\ UNCHANGED <<p, pc, caller, args, old_r, r, old_s, s, old_t, t, iter>>

Xor ==
    /\ pc = "idle"
    /\ \E i \in 1..2, d \in 1..2, n \in Exponents :
           Finish("xor", <<elems[i], n>>, xor(p, elems[i], n), d)
    /\ UNCHANGED <<p, pc, caller, args, old_r, r, old_s, s, old_t, t, iter>>

(* ------------------------- elliptic curve ------------------------------ *)
\* EllipticGroup.__init__: the coefficients of y^2 = x^3 + a*x + b
EllipticGroup_a == 0

EllipticGroup_b == 7

\* the group object; the modulus is scaled down from the 256-bit prime to the
\* primes up to MaxP (Secp256k1 below checks the generator at full width)
EllipticGroup(cp) == [p |-> cp, a |-> EllipticGroup_a, b |-> EllipticGroup_b]

\* EllipticGroupElement.__init__ sets exactly these attributes, and checks
\* nothing; it does not call GroupElement.__init__ (no value, no field)
EllipticGroupElement(x, y, group) == [x |-> x, y |-> y, group |-> group]

has_attr(obj, name) == name \in DOMAIN obj

\* a slip in line 215: b is added, not subtracted
assert_solution_plus_b(self) ==
    LET f  == self.group.p
        y2 == pow(f, self.y, 2, 1).value
        x3 == pow(f, self.x, 3, 1).value
        ax == multiply(f, self.group.a, self.x)
    IN  add(f, subtract(f, subtract(f, y2, x3), ax), self.group.b)

\* (self.y**2) - (self.x**3) - self.group.a*self.x - self.group.b
assert_solution(self) ==
    LET f  == self.group.p
        y2 == pow(f, self.y, 2, 1).value
        x3 == pow(f, self.x, 3, 1).value
        ax == multiply(f, self.group.a, self.x)
    IN  subtract(f, subtract(f, subtract(f, y2, x3), ax), self.group.b)

\* EllipticGroupElement.__xor__ reads self.field and self.value
elliptic_xor(self, exponent) ==
    IF ~has_attr(self, "field") \/ ~has_attr(self, "value")
    THEN Raised("AttributeError")
    ELSE xor(self.field, self.value, exponent)

\* EllipticGroupElement.__mul__ -> EllipticGroup.multiply
elliptic_multiply(left, right) == Raised("NotImplementedError")

\* The driver builds a point on the curve over Field(p) from the coordinates
\* it holds, elems[1] and elems[2], and the result of the call is recorded.
PointConstruct ==
    /\ pc = "idle"
    /\ LET pt == EllipticGroupElement(elems[1], elems[2], EllipticGroup(p))
       IN  last' = [op |-> "construct", in |-> <<elems[1], elems[2]>>,
                    status |-> "ok", out |-> <<pt.x, pt.y>>]
    /\ UNCHANGED <<p, elems, pc, caller, args, old_r, r, old_s, s, old_t, t, iter>>

PointAssertSolution ==
    /\ pc = "idle"
    /\ LET pt == EllipticGroupElement(elems[1], elems[2], EllipticGroup(p))
       IN  last' = [op |-> "assert_solution", in |-> <<elems[1], elems[2]>>,
                    status |-> "ok", out |-> <<assert_solution(pt)>>]
    /\ UNCHANGED <<p, elems, pc, caller, args, old_r, r, old_s, s, old_t, t, iter>>

PointXor ==
    /\ pc = "idle"
    /\ \E k \in Exponents :
           LET pt  == EllipticGroupElement(elems[1], elems[2], EllipticGroup(p))
               res == elliptic_xor(pt, k)
           IN  last' = [op |-> "point_xor", in |-> <<elems[1], elems[2], k>>,
                        status |-> res.status,
                        out |-> IF res.status = "ok" THEN <<res.value>> ELSE <<>>]
    /\ UNCHANGED <<p, elems, pc, caller, args, old_r, r, old_s, s, old_t, t, iter>>

PointMultiply ==
    /\ pc = "idle"
    /\ LET pt  == EllipticGroupElement(elems[1], elems[2], EllipticGroup(p))
           res == elliptic_multiply(pt, pt)
       IN  last' = [op |-> "point_multiply", in |-> <<elems[1], elems[2]>>,
                    status |-> res.status, out |-> <<>>]
    /\ UNCHANGED <<p, elems, pc, caller, args, old_r, r, old_s, s, old_t, t, iter>>

(* -------------------- the curve at its full width ---------------------- *)
(* The secp256k1 constants do not fit TLC's integers.  A wide integer is the
   sequence of its base-256 digits, least significant first; the operators
   below are Python's +, -, * and % on such integers.  Each works on a
   range of digit positions that it halves, which keeps the evaluation
   shallow; a range's result is <<digits of the range, carry out>>.         *)
Digit(a, i) == IF 1 <= i /\ i <= Len(a) THEN a[i] ELSE 0

\* digits lo..hi of a + b, given the carry into digit lo
RECURSIVE AddRange(_, _, _, _, _)
AddRange(a, b, lo, hi, carry) ==
    IF lo = hi
    THEN LET d == Digit(a, lo) + Digit(b, lo) + carry
         IN  <<<<d % 256>>, d \div 256>>
    ELSE LET mid  == (lo + hi) \div 2
             low  == AddRange(a, b, lo, mid, carry)
             high == AddRange(a, b, mid + 1, hi, low[2])
         IN  <<low[1] \o high[1], high[2]>>

\* digits lo..hi of a - b, given the borrow from digit lo; over all the
\* digits the borrow out is 1 exactly when a < b
RECURSIVE SubRange(_, _, _, _, _)
SubRange(a, b, lo, hi, borrow) ==
    IF lo = hi
    THEN LET d == Digit(a, lo) - Digit(b, lo) - borrow
         IN  <<<<d % 256>>, IF d < 0 THEN 1 ELSE 0>>
    ELSE LET mid  == (lo + hi) \div 2
             low  == SubRange(a, b, lo, mid, borrow)
             high == SubRange(a, b, mid + 1, hi, low[2])
         IN  <<low[1] \o high[1], high[2]>>

WideAdd(a, b) == AddRange(a, b, 1, Max(Len(a), Len(b)) + 1, 0)[1]
WideSub(a, b) == SubRange(a, b, 1, Len(a), 0)[1]

\* the sum of a[i] * b[k + 1 - i] over i = lo..hi: part of column k of a * b
RECURSIVE Column(_, _, _, _, _)
Column(a, b, k, lo, hi) ==
    IF lo = hi THEN a[lo] * Digit(b, k + 1 - lo)
    ELSE LET mid == (lo + hi) \div 2
         IN  Column(a, b, k, lo, mid) + Column(a, b, k, mid + 1, hi)

\* digits lo..hi of a * b, given the carry into digit lo
RECURSIVE MulRange(_, _, _, _, _)
MulRange(a, b, lo, hi, carry) ==
    IF lo = hi
    THEN LET d == Column(a, b, lo, 1, Len(a)) + carry
         IN  <<<<d % 256>>, d \div 256>>
    ELSE LET mid  == (lo + hi) \div 2
             low  == MulRange(a, b, lo, mid, carry)
             high == MulRange(a, b, mid + 1, hi, low[2])
         IN  <<low[1] \o high[1], high[2]>>

WideMul(a, b) == MulRange(a, b, 1, Len(a) + Len(b), 0)[1]

\* (256 * rem + d) % m for rem < m and a digit d, bit k of d downwards;
\* rem has Len(m) + 1 digits (the tests on Len make TLC evaluate a remainder
\* before it goes on, not after)
RECURSIVE ShiftIn(_, _, _, _)
ShiftIn(rem, d, m, k) ==
    IF k < 0 THEN rem
    ELSE LET n   == Len(m) + 1
             dbl == AddRange(rem, rem, 1, n, (d \div (2 ^ k)) % 2)[1]
             sub == SubRange(dbl, m, 1, n, 0)
             red == IF sub[2] = 1 THEN dbl ELSE sub[1]
         IN  IF Len(red) = n THEN ShiftIn(red, d, m, k - 1) ELSE <<>>

\* long division: the remainder once digits hi down to lo of a are brought
\* down onto rem
RECURSIVE ModRange(_, _, _, _, _)
ModRange(a, m, hi, lo, rem) ==
    IF hi = lo THEN ShiftIn(rem, a[hi], m, 7)
    ELSE LET mid  == (hi + lo + 1) \div 2
             high == ModRange(a, m, hi, mid, rem)
         IN  IF Len(high) = Len(m) + 1 THEN ModRange(a, m, mid - 1, lo, high)
             ELSE <<>>

WideMod(a, m) ==
    SubSeq(ModRange(a, m, Len(a), 1, [j \in 1..(Len(m) + 1) |-> 0]), 1, Len(m))

\* int(text, 16) of the source's hexadecimal constants, given here as their
\* 16-bit groups, most significant first
RECURSIVE FromHex(_)
FromHex(words) ==
    IF words = <<>> THEN <<>>
    ELSE FromHex(Tail(words)) \o <<Head(words) % 256, Head(words) \div 256>>

WideInt(n) == <<n>>
WideIsZero(a) == \A i \in 1..Len(a) : a[i] = 0

\* EllipticGroup.__init__, lines 171, 174, 175
Secp256k1_p ==
    FromHex(<<\hFFFF, \hFFFF, \hFFFF, \hFFFF, \hFFFF, \hFFFF, \hFFFF, \hFFFF,
      \hFFFF, \hFFFF, \hFFFF, \hFFFF, \hFFFF, \hFFFE, \hFFFF, \hFC2F>>)

Secp256k1_Gx ==
    FromHex(<<\h79BE, \h667E, \hF9DC, \hBBAC, \h55A0, \h6295, \hCE87, \h0B07,
      \h029B, \hFCDB, \h2DCE, \h28D9, \h59F2, \h815B, \h16F8, \h1798>>)

Secp256k1_Gy ==
    FromHex(<<\h483A, \hDA77, \h26A3, \hC465, \h5DA4, \hFBFC, \h0E11, \h08A8,
      \hFD17, \hB448, \hA685, \h5419, \h9C47, \hD08F, \hFB10, \hD4B8>>)

\* generator(): EllipticGroupElement(self.Gx, self.Gy, self), on the curve
\* whose a and b are FieldElements over Field(self.p)
Secp256k1 ==
    [p |-> Secp256k1_p, a |-> WideInt(EllipticGroup_a), b |-> WideInt(EllipticGroup_b)]

generator == EllipticGroupElement(Secp256k1_Gx, Secp256k1_Gy, Secp256k1)

\* Field.multiply, Field.subtract, FieldElement.__pow__ and assert_solution
\* as above, on wide integers
wide_multiply(f, left, right) == WideMod(WideMul(left, right), f)

wide_subtract(f, left, right) == WideMod(WideSub(WideAdd(f, left), right), f)

RECURSIVE wide_pow(_, _, _, _)
wide_pow(f, self, exponent, depth) ==
    IF depth > MaxDepth THEN Raised("RecursionError")
    ELSE IF exponent = 0 THEN Returned(WideInt(one))
    ELSE IF exponent = 1 THEN Returned(self)
    ELSE IF exponent % 2 = 0
         THEN wide_pow(f, wide_multiply(f, self, self), exponent \div 2, depth + 1)
         ELSE LET rest == wide_pow(f, wide_multiply(f, self, self),
                                   (exponent - 1) \div 2, depth + 1)
              IN  IF rest.status = "ok"
                  THEN Returned(wide_multiply(f, self, rest.value))
                  ELSE rest

wide_assert_solution(self) ==
    LET f  == self.group.p
        y2 == wide_pow(f, self.y, 2, 1).value
        x3 == wide_pow(f, self.x, 3, 1).value
        ax == wide_multiply(f, self.group.a, self.x)
    IN  wide_subtract(f, wide_subtract(f, wide_subtract(f, y2, x3), ax),
                      self.group.b)

\* main.py, lines 14-17: g = ec.generator(); g.assert_solution()
generator_assert_solution == wide_assert_solution(generator)

GeneratorAssertSolution ==
    /\ pc = "idle"
    /\ last' = [op |-> "generator_assert_solution", in |-> <<>>, status |-> "ok",
                out |-> generator_assert_solution]
    /\ UNCHANGED <<p, elems, pc, caller, args, old_r, r, old_s, s, old_t, t, iter>>

(* ------------------------- specifications ------------------------------ *)
Init ==
    /\ p \in Primes
    /\ elems \in [1..2 -> 0..(p - 1)]
    /\ last = NoOp
    /\ pc = "idle"
    /\ caller = NoCaller
    /\ args = <<0, 0>>
    /\ old_r = 0 /\ r = 0 /\ old_s = 0 /\ s = 0 /\ old_t = 0 /\ t = 0
    /\ iter = 0

\* direct calls of xgcd involve no field: one initial state
InitXgcd == Init /\ p = 2 /\ elems = [i \in 1..2 |-> 0]

NextXgcd == XgcdCall \/ XgcdStep \/ XgcdReturn

SpecXgcd == InitXgcd /\ [][NextXgcd]_vars

NextField ==
    \/ FieldAdd \/ FieldSubtract \/ FieldMultiply \/ FieldNegate
    \/ InverseCall \/ InverseReturn \/ DivideCall \/ DivideReturn
    \/ XgcdStep \/ Pow \/ Xor

SpecField == Init /\ [][NextField]_vars

NextCurve ==
    \/ PointConstruct \/ PointAssertSolution \/ PointXor \/ PointMultiply
    \/ GeneratorAssertSolution

SpecCurve == Init /\ [][NextCurve]_vars

\* The three parts act on disjoint state (the elements, the frame of a direct
\* xgcd call, the result of a point operation), so each is explored on its own
\* above; Next is their union.
Next == NextField \/ NextXgcd \/ NextCurve

Spec == Init /\ [][Next]_vars

\* Python runs the loop and the return: neither waits forever once enabled
FairSpecXgcd == SpecXgcd /\ WF_vars(XgcdStep) /\ WF_vars(XgcdReturn)

(* ===================== properties of the program ======================= *)
FieldOps == {"add", "subtract", "multiply", "negate", "inverse", "divide"}
InRange(v) == 0 <= v /\ v < p

\* error kinds of the specification, as the Python exceptions that signal them
DivisionByZero == {"AssertionError", "ZeroDivisionError"}
InvalidExponent == {"ValueError"}
InvalidPoint == {"ValueError", "AssertionError"}

\* a multiplied by itself n times modulo f, one multiplication at a time
RECURSIVE RepeatedMultiply(_, _, _)
RepeatedMultiply(f, a, n) ==
    IF n = 0 THEN 1 ELSE (a * RepeatedMultiply(f, a, n - 1)) % f

Divides(d, n) == n % d = 0
\* the greatest common divisor of two non-negative integers, gcd(0, 0) = 0
GCD(x, y) ==
    IF x = 0 /\ y = 0 THEN 0
    ELSE CHOOSE d \in 1..Max(x, y) :
             /\ Divides(d, x) /\ Divides(d, y)
             /\ \A e \in 1..Max(x, y) : Divides(e, x) /\ Divides(e, y) => e <= d

\* C1: the elements the driver started with were in [0, p); every FieldElement
\* a Field operation returns, and so every element held afterwards, has
\* 0 <= value < p.
C1_AllElementsReduced ==
    /\ \A i \in 1..2 : InRange(elems[i])
    /\ (last.op \in FieldOps /\ last.status = "ok") => InRange(last.out[1])

\* C2: divide(a, zero) and inverse(zero) both fail with a division-by-zero
\* error, for every a; neither returns a field element.
C2_DivisionByZeroFails ==
    /\ (last.op = "divide" /\ last.in[2] = zero) => last.status \in DivisionByZero
    /\ (last.op = "inverse" /\ last.in[1] = zero) => last.status \in DivisionByZero

\* C3: for 0 < a.value < p, inverse(a) returns x with a * x == one(), that is
\* a.value * x.value = 1 modulo p.
C3_InverseIsInverse ==
    (last.op = "inverse" /\ 0 < last.in[1] /\ last.in[1] < p) =>
        /\ last.status = "ok"
        /\ (last.in[1] * last.out[1]) % p = 1
        /\ multiply(p, last.in[1], last.out[1]) = one

\* an inverse of an element other than 1 was computed
C3_Witness ==
    /\ last.op = "inverse" /\ 1 < last.in[1] /\ last.in[1] < p
    /\ last.status = "ok" /\ p > 3

\* C4: for non-negative x and y, old_s*x + old_t*y = old_r and s*x + t*y = r
\* hold at entry and after every loop iteration, and the triple (s, t, g)
\* returned has s*x + t*y = g and g = gcd(x, y).
C4_XgcdBezout ==
    /\ (pc = "xgcd" /\ caller.op = "xgcd") =>
           /\ old_s * args[1] + old_t * args[2] = old_r
           /\ s * args[1] + t * args[2] = r
    /\ last.op = "xgcd" =>
           /\ last.out[1] * last.in[1] + last.out[2] * last.in[2] = last.out[3]
           /\ last.out[3] = GCD(last.in[1], last.in[2])

\* xgcd returned for 0 < x < y with a common divisor above 1
C4_Witness ==
    /\ last.op = "xgcd"
    /\ 0 < last.in[1] /\ last.in[1] < last.in[2]
    /\ last.out[3] > 1 /\ last.out[3] < last.in[1]

\* C5: for every field element a and n >= 0, a ** n and a ^ n both return a
\* multiplied by itself n times modulo p (the identity for n = 0), so the two
\* operators agree.
C5_PowersAreRepeatedProducts ==
    (last.op \in {"pow", "xor"} /\ last.in[2] >= 0) =>
        /\ last.status = "ok"
        /\ last.out[1] = RepeatedMultiply(p, last.in[1], last.in[2])

\* what does hold of the two operators: on elements within [0, p) they
\* return the repeated product
PowersOfReducedElements ==
    (last.op \in {"pow", "xor"} /\ last.in[2] >= 0 /\ InRange(last.in[1])) =>
        /\ last.status = "ok"
        /\ last.out[1] = RepeatedMultiply(p, last.in[1], last.in[2])

\* the curve equation y^2 = x^3 + a*x + b modulo f
OnCurve(f, x, y) ==
    (y * y) % f = (x * x * x + EllipticGroup_a * x + EllipticGroup_b) % f

\* C6: constructing a point from (x, y) succeeds only if y^2 = x^3 + a*x + b
\* modulo p; otherwise it fails with InvalidPoint and produces no point.
C6_ConstructionValidates ==
    last.op = "construct" =>
        IF OnCurve(p, last.in[1], last.in[2])
        THEN last.status = "ok"
        ELSE last.status \in InvalidPoint /\ last.out = <<>>

\* C7: a negative exponent is rejected with InvalidExponent by both ** and ^:
\* neither returns a value, neither recurses or loops without end.
C7_NegativeExponentRejected ==
    (last.op \in {"pow", "xor"} /\ last.in[2] < 0) =>
        last.status \in InvalidExponent

(* the group law of the curve over Field(f), to state C8; the point at
   infinity is <<>>, a finite point <<x, y>> *)
Infinity == <<>>
ModInverse(f, v) == CHOOSE w \in 0..(f - 1) : (v * w) % f = 1
CurveAdd(f, P, Q) ==
    IF P = Infinity THEN Q
    ELSE IF Q = Infinity THEN P
    ELSE IF P[1] = Q[1] /\ (P[2] + Q[2]) % f = 0 THEN Infinity
    ELSE LET lam == IF P = Q
                    THEN ((3 * P[1] * P[1] + EllipticGroup_a)
                          * ModInverse(f, (2 * P[2]) % f)) % f
                    ELSE ((Q[2] - P[2]) * ModInverse(f, (Q[1] - P[1]) % f)) % f
             x3  == (lam * lam - P[1] - Q[1]) % f
         IN  <<x3, (lam * (P[1] - x3) - P[2]) % f>>
RECURSIVE RepeatedAdd(_, _, _)
RepeatedAdd(f, P, k) ==
    IF k = 0 THEN Infinity ELSE CurveAdd(f, P, RepeatedAdd(f, P, k - 1))

\* C8: for a curve point P and k >= 0, P ^ k returns P added to itself k
\* times under the group law, and the point at infinity for k = 0.
C8_ScalarMultiplication ==
    (/\ last.op = "point_xor" /\ last.in[3] >= 0
     /\ p > 3 /\ OnCurve(p, last.in[1], last.in[2])) =>
        /\ last.status = "ok"
        /\ last.out = RepeatedAdd(p, <<last.in[1], last.in[2]>>, last.in[3])

\* C9: assert_solution() returns the field element (y^2 - x^3 - a*x - b) mod p,
\* which is 0 exactly when y^2 = x^3 + a*x + b modulo p; and it is 0 for
\* generator(), the secp256k1 base point.
C9_AssertSolutionValue ==
    /\ last.op = "assert_solution" =>
           LET x == last.in[1]
               y == last.in[2]
           IN  /\ last.status = "ok"
               /\ last.out[1] =
                      (y * y - x * x * x - EllipticGroup_a * x - EllipticGroup_b) % p
               /\ (last.out[1] = 0) <=> OnCurve(p, x, y)
    /\ last.op = "generator_assert_solution" =>
           /\ Len(last.out) = Len(Secp256k1_p)
           /\ WideIsZero(last.out)

\* assert_solution() returned 0 for a point with non-zero coordinates
C9_Witness ==
    /\ last.op = "assert_solution" /\ last.out = <<0>>
    /\ last.in[1] > 0 /\ last.in[2] > 1

\* C10: for non-negative x and y the loop of xgcd ends (r reaches 0), r is
\* never negative, and from the second iteration on every iteration makes r
\* strictly smaller.
C10_XgcdTerminates ==
    /\ [](pc = "xgcd" => r >= 0)
    /\ [][(pc = "xgcd" /\ pc' = "xgcd" /\ iter >= 1) => r' < r]_vars
    /\ (pc = "xgcd" ~> pc = "idle")

\* a call with 0 < x < y is about to run its third iteration
C10_Witness ==
    /\ pc = "xgcd" /\ iter >= 2 /\ r > 0
    /\ 0 < args[1] /\ args[1] < args[2]

==========================================================================
